---- MODULE Spec2Model ----
(***************************************************************************)
(* A model of transmission-process-torrents: the recursive hard-link       *)
(* merge (hardlink.py) and the reconciliation run (process_torrents/       *)
(* base.py, Command.__call__).                                             *)
(*                                                                         *)
(* A path is a Python string, modelled as a sequence of one-character      *)
(* strings, so that str.startswith and str.replace work on characters as   *)
(* they do in the code and not on path components.                         *)
(*                                                                         *)
(* The file system is a function from the physical absolute path of every  *)
(* existing entry to its node: a directory, a regular file (with the inode *)
(* that identifies its data) or a symbolic link (with its target).  The    *)
(* root directory "/" always exists and is not in the domain.              *)
(***************************************************************************)
EXTENDS Integers, Sequences, FiniteSets, TLC

(***************************************************************************)
(* Bounds of the model.                                                    *)
(***************************************************************************)
\* Symbolic links followed while resolving one path (the kernel's ELOOP limit).
MaxSymlinks == 2
\* Directory levels os.walk descends before the model reports "loop".
MaxWalkDepth == 3

(***************************************************************************)
(* Python strings.                                                         *)
(***************************************************************************)
SEP == "/"
Root == <<SEP>>

\* str.startswith
StartsWith(s, pre) ==
    /\ Len(pre) <= Len(s)
    /\ SubSeq(s, 1, Len(pre)) = pre

\* str.replace(old, new): every non-overlapping occurrence, left to right.
RECURSIVE Replace(_, _, _)
Replace(s, old, new) ==
    IF Len(s) < Len(old) \/ old = <<>> THEN s
    ELSE IF StartsWith(s, old)
         THEN new \o Replace(SubSeq(s, Len(old) + 1, Len(s)), old, new)
         ELSE <<Head(s)>> \o Replace(Tail(s), old, new)

\* str.split('/') without the empty components: the names of a path.
RECURSIVE SplitFrom(_, _, _)
SplitFrom(s, i, cur) ==
    IF i > Len(s) THEN (IF cur = <<>> THEN <<>> ELSE <<cur>>)
    ELSE IF s[i] = SEP
         THEN (IF cur = <<>> THEN <<>> ELSE <<cur>>) \o SplitFrom(s, i + 1, <<>>)
         ELSE SplitFrom(s, i + 1, Append(cur, s[i]))

Split(s) == SplitFrom(s, 1, <<>>)

\* '/'.join(names)
RECURSIVE JoinNames(_)
JoinNames(names) ==
    IF names = <<>> THEN <<>>
    ELSE IF Len(names) = 1 THEN names[1]
    ELSE names[1] \o <<SEP>> \o JoinNames(Tail(names))

\* os.path.join(a, b)
Join(a, b) ==
    IF b # <<>> /\ b[1] = SEP THEN b
    ELSE IF a = <<>> \/ a[Len(a)] = SEP THEN a \o b
    ELSE a \o <<SEP>> \o b

\* The names of a path with '.' dropped and 'x/..' collapsed (posixpath.normpath
\* on an absolute path: '..' at the root is dropped).
RECURSIVE NormNames(_, _)
NormNames(names, acc) ==
    IF names = <<>> THEN acc
    ELSE LET c == Head(names) IN
         IF c = <<".">> THEN NormNames(Tail(names), acc)
         ELSE IF c = <<".", ".">>
              THEN NormNames(Tail(names),
                             IF acc = <<>> THEN acc ELSE SubSeq(acc, 1, Len(acc) - 1))
              ELSE NormNames(Tail(names), Append(acc, c))

\* os.path.abspath of an absolute path (every path of the model is absolute).
Abspath(p) == Root \o JoinNames(NormNames(Split(p), <<>>))

\* os.path.dirname and os.path.basename of a normalised absolute path.
DirnameOf(n) == IF n = <<>> THEN Root ELSE Root \o JoinNames(SubSeq(n, 1, Len(n) - 1))
Dirname(p) == DirnameOf(Split(p))

BasenameOf(n) == IF n = <<>> THEN <<>> ELSE n[Len(n)]
Basename(p) == BasenameOf(Split(p))

\* The length of the common prefix of two lists of names
\* (os.path.commonprefix on lists).
RECURSIVE CommonLen(_, _)
CommonLen(a, b) ==
    IF a = <<>> \/ b = <<>> \/ Head(a) # Head(b) THEN 0
    ELSE 1 + CommonLen(Tail(a), Tail(b))

\* os.path.relpath(path, start): '..' for every name of start past the common
\* prefix, then the names of path past it.
RelFrom(sl, pl, i) ==
    LET rel == [k \in 1..(Len(sl) - i) |-> <<".", ".">>] \o SubSeq(pl, i + 1, Len(pl))
    IN IF rel = <<>> THEN <<".">> ELSE JoinNames(rel)
RelOf(sl, pl) == RelFrom(sl, pl, CommonLen(sl, pl))
Relpath(path, start) ==
    RelOf(NormNames(Split(start), <<>>), NormNames(Split(path), <<>>))

\* One element of a set whose order the code does not choose (os.listdir, a dict).
Pick(S) == CHOOSE x \in S : TRUE

(***************************************************************************)
(* The file system.                                                        *)
(***************************************************************************)
Dir == [t |-> "dir", ino |-> 0, to |-> <<>>]
File(i) == [t |-> "file", ino |-> i, to |-> <<>>]
Symlink(target) == [t |-> "link", ino |-> 0, to |-> target]

Child(cur, name) == IF cur = Root THEN Root \o name ELSE cur \o <<SEP>> \o name

Found(p) == [ok |-> TRUE, p |-> p, err |-> "ok"]
Failed(p, err) == [ok |-> FALSE, p |-> p, err |-> err]

\* The kernel's path walk from directory cur over names. follow: whether a
\* symbolic link in the last place is followed (stat) or not (lstat). The
\* result's p is the physical path of the entry, which may not exist (then its
\* parent does and is a directory).
RECURSIVE ResolveC(_, _, _, _, _)
RECURSIVE ResolveAt(_, _, _, _, _)
ResolveC(fs, cur, names, follow, fuel) ==
    IF names = <<>> THEN Found(cur)
    ELSE ResolveAt(fs, Child(cur, Head(names)), Tail(names), follow, fuel)

ResolveAt(fs, p, rest, follow, fuel) ==
    IF p \notin DOMAIN fs
    THEN (IF rest = <<>> THEN Found(p) ELSE Failed(p, "ENOENT"))
    ELSE IF fs[p].t = "link" /\ (rest # <<>> \/ follow)
         THEN (IF fuel = 0 THEN Failed(p, "ELOOP")
               ELSE ResolveC(fs, Root, Split(fs[p].to) \o rest, follow, fuel - 1))
    ELSE IF fs[p].t = "file" /\ rest # <<>> THEN Failed(p, "ENOTDIR")
    ELSE ResolveC(fs, p, rest, follow, fuel)

LPath(fs, p) == ResolveC(fs, Root, Split(p), FALSE, MaxSymlinks)
SPath(fs, p) == ResolveC(fs, Root, Split(p), TRUE, MaxSymlinks)

Present(fs, r) == r.ok /\ (r.p = Root \/ r.p \in DOMAIN fs)
IsDirAt(fs, r) == Present(fs, r) /\ (r.p = Root \/ fs[r.p].t = "dir")
IsFileAt(fs, r) == Present(fs, r) /\ r.p # Root /\ fs[r.p].t = "file"
IsLinkAt(fs, r) == Present(fs, r) /\ r.p # Root /\ fs[r.p].t = "link"

\* os.path.exists, isdir, isfile (follow links), lexists and islink (do not).
Exists(fs, p) == Present(fs, SPath(fs, p))
LExists(fs, p) == Present(fs, LPath(fs, p))
IsDir(fs, p) == IsDirAt(fs, SPath(fs, p))
IsFile(fs, p) == IsFileAt(fs, SPath(fs, p))
IsLink(fs, p) == IsLinkAt(fs, LPath(fs, p))

\* os.path.realpath: the path with every symbolic link resolved; a path that
\* cannot be resolved is returned as it is.
RealOf(r, p) == IF r.ok THEN r.p ELSE Abspath(p)
Realpath(fs, p) == RealOf(SPath(fs, p), p)

\* The inode a path leads to (0 when it leads to no regular file).
InodeAt(fs, r) == IF IsFileAt(fs, r) THEN fs[r.p].ino ELSE 0
InodeOf(fs, p) == InodeAt(fs, SPath(fs, p))

\* The entries below a physical directory, and its names (os.listdir).
Below(fs, d) == {q \in DOMAIN fs : q # d /\ StartsWith(q, Child(d, <<>>))}
ListDir(fs, d) == {Basename(q) : q \in {q \in DOMAIN fs : Dirname(q) = d}}

Without(fs, S) == [q \in DOMAIN fs \ S |-> fs[q]]
With(fs, p, node) == [q \in DOMAIN fs \cup {p} |-> IF q = p THEN node ELSE fs[q]]

Sys(fs, err) == [fs |-> fs, err |-> err]

\* os.remove (unlink).
RemoveAt(fs, r) ==
    IF ~r.ok THEN Sys(fs, r.err)
    ELSE IF r.p \notin DOMAIN fs THEN Sys(fs, "ENOENT")
    ELSE IF fs[r.p].t = "dir" THEN Sys(fs, "EPERM")
    ELSE Sys(Without(fs, {r.p}), "ok")
Remove(fs, p) == RemoveAt(fs, LPath(fs, p))

\* os.link: a new name d for the file s.
OsLinkAt(fs, s, d) ==
    IF ~s.ok THEN Sys(fs, s.err)
    ELSE IF s.p = Root \/ s.p \notin DOMAIN fs THEN Sys(fs, "ENOENT")
    ELSE IF ~d.ok THEN Sys(fs, d.err)
    ELSE IF d.p = Root \/ d.p \in DOMAIN fs THEN Sys(fs, "EEXIST")
    ELSE IF fs[s.p].t = "dir" THEN Sys(fs, "EPERM")
    ELSE Sys(With(fs, d.p, fs[s.p]), "ok")
OsLink(fs, src, dst) == OsLinkAt(fs, SPath(fs, src), LPath(fs, dst))

\* os.mkdir
MkdirAt(fs, d) ==
    IF ~d.ok THEN Sys(fs, d.err)
    ELSE IF d.p = Root \/ d.p \in DOMAIN fs THEN Sys(fs, "EEXIST")
    ELSE Sys(With(fs, d.p, Dir), "ok")
Mkdir(fs, p) == MkdirAt(fs, LPath(fs, p))

\* os.makedirs: the missing parents first (an EEXIST of theirs is ignored),
\* then the directory itself.
RECURSIVE OsMakedirs(_, _)
RECURSIVE MakeParents(_, _, _)
MakeParents(fs, p, head) ==
    IF p # Root /\ head # Root /\ ~Exists(fs, head) THEN OsMakedirs(fs, head)
    ELSE Sys(fs, "ok")
MakeLast(up, p) == IF up.err \notin {"ok", "EEXIST"} THEN up ELSE Mkdir(up.fs, p)
OsMakedirs(fs, p) == MakeLast(MakeParents(fs, p, Dirname(p)), p)

\* shutil.rmtree: refuses a symbolic link and a path that is no directory.
RmTreeAt(fs, r) ==
    IF ~Present(fs, r) \/ r.p = Root THEN Sys(fs, "ENOENT")
    ELSE IF fs[r.p].t # "dir" THEN Sys(fs, "ENOTDIR")
    ELSE Sys(Without(fs, Below(fs, r.p) \cup {r.p}), "ok")
RmTree(fs, p) == RmTreeAt(fs, LPath(fs, p))

(***************************************************************************)
(* hardlink.py.  A result is the file system left behind and a status:     *)
(* "ok" (returned), "exit" (err() called exit(1)), "raise" (an OSError     *)
(* left the function) or "loop" (os.walk went deeper than MaxWalkDepth).   *)
(***************************************************************************)
Res(fs, st) == [fs |-> fs, st |-> st]

\* makedirs(path): EEXIST and ENOTDIR are warned about, anything else raises.
MakedirsResult(r) ==
    IF r.err \in {"ok", "EEXIST", "ENOTDIR"} THEN Res(r.fs, "ok") ELSE Res(r.fs, "raise")
Makedirs(fs, path) == MakedirsResult(OsMakedirs(fs, path))

\* A retry whose failure is taken for a warning.
LinkAgainSwallowed(fs, again) ==
    IF again.err = "ok" THEN Res(again.fs, "ok") ELSE Res(fs, "ok")

\* link(src, dst, force)
LinkAgain(fs, again) ==
    IF again.err = "ok" THEN Res(again.fs, "ok") ELSE Res(fs, "raise")
LinkRetry(fs, src, dst, rm) ==
    IF rm.err # "ok" THEN Res(fs, "raise")
    ELSE LinkAgain(rm.fs, OsLink(rm.fs, src, dst))

\* A link that never replaces what is there, as if force were never given.
LinkOutcomeKeep(fs, src, dst, force, r) ==
    IF r.err = "ok" THEN Res(r.fs, "ok")
    ELSE IF r.err # "EEXIST" THEN Res(fs, "raise")
    ELSE Res(fs, "ok")

\* Lines 90-103: what link makes of the first os.link.
LinkOutcome(fs, src, dst, force, r) ==
    IF r.err = "ok" THEN Res(r.fs, "ok")
    ELSE IF r.err # "EEXIST" THEN Res(fs, "raise")
    ELSE IF force THEN LinkRetry(fs, src, dst, Remove(fs, dst))
    ELSE Res(fs, "ok")
\* A link that always replaces what is there, as if force were always given.
LinkForceAlways(fs, src, dst, force) ==
    LinkOutcome(fs, src, dst, TRUE, OsLink(fs, src, dst))
\* Lines 89-91: link tries os.link first.
LinkForce(fs, src, dst, force) == LinkOutcome(fs, src, dst, force, OsLink(fs, src, dst))

\* A directory of the walk whose destination is taken as it is, symlink or not.
LinkDirAtKept(fs, dstpath) == Makedirs(fs, dstpath)

\* One directory of the walk: lines 55-59.
LinkDirAt(fs, dstpath) ==
    Makedirs(IF IsDir(fs, dstpath) /\ IsLink(fs, dstpath)
             THEN Remove(fs, dstpath).fs ELSE fs,
             dstpath)
LinkDir(fs, dst, local, d) == LinkDirAt(fs, Abspath(Join(Join(dst, local), d)))

\* One file of the walk: lines 61-78.
LinkMade(m, srcfile, dstfile, force) ==
    IF m.st # "ok" THEN m ELSE LinkForce(m.fs, srcfile, dstfile, force)
LinkFileAt(fs, srcfile, dstfile, force) ==
    IF ~Exists(fs, srcfile) THEN Res(fs, "ok")
    ELSE IF srcfile = dstfile THEN Res(fs, "ok")
    ELSE IF IsDir(fs, dstfile) THEN Res(fs, "ok")
    ELSE LinkMade(Makedirs(IF IsFile(fs, dstfile) /\ IsLink(fs, dstfile)
                           THEN Remove(fs, dstfile).fs ELSE fs,
                           Dirname(dstfile)),
                  srcfile, dstfile, force)
LinkFile(fs, cwd, dst, local, f, force) ==
    LinkFileAt(fs, Realpath(fs, Abspath(Join(cwd, Join(local, f)))),
               Abspath(Join(Join(dst, local), f)), force)

\* The loops over the dirs and the files that os.walk yields for one directory
\* (os.listdir's order is not specified: the model takes one order).
RECURSIVE LinkDirs(_, _, _, _)
RECURSIVE LinkDirsRest(_, _, _, _)
LinkDirs(fs, dst, local, dirs) ==
    IF dirs = {} THEN Res(fs, "ok")
    ELSE LinkDirsRest(LinkDir(fs, dst, local, Pick(dirs)), dst, local,
                      dirs \ {Pick(dirs)})
LinkDirsRest(r, dst, local, dirs) ==
    IF r.st # "ok" THEN r ELSE LinkDirs(r.fs, dst, local, dirs)

RECURSIVE LinkFiles(_, _, _, _, _, _)
RECURSIVE LinkFilesRest(_, _, _, _, _, _)
LinkFiles(fs, cwd, dst, local, files, force) ==
    IF files = {} THEN Res(fs, "ok")
    ELSE LinkFilesRest(LinkFile(fs, cwd, dst, local, Pick(files), force), cwd, dst,
                       local, files \ {Pick(files)}, force)
LinkFilesRest(r, cwd, dst, local, files, force) ==
    IF r.st # "ok" THEN r ELSE LinkFiles(r.fs, cwd, dst, local, files, force)

\* os.walk(local, followlinks=True) from the working directory cwd, with the
\* loop body of hardlink run at every directory it yields. The walk is lazy:
\* each directory is listed when the walk comes to it, after what the body did
\* before.
RECURSIVE Walk(_, _, _, _, _, _)
RECURSIVE WalkInto(_, _, _, _, _, _, _)
RECURSIVE WalkIntoRest(_, _, _, _, _, _, _)
RECURSIVE WalkSubs(_, _, _, _, _, _, _)
SubDirs(fs, d) == {n \in ListDir(fs, d) : IsDir(fs, Child(d, n))}
WalkFiles(r, cwd, dst, local, files, force) ==
    IF r.st # "ok" THEN r ELSE LinkFiles(r.fs, cwd, dst, local, files, force)
WalkSubs(r, cwd, dst, local, force, fuel, dirs) ==
    IF r.st # "ok" THEN r ELSE WalkInto(r.fs, cwd, dst, local, force, fuel, dirs)
WalkDir(fs, cwd, dst, local, force, fuel, names, dirs) ==
    WalkSubs(WalkFiles(LinkDirs(fs, dst, local, dirs), cwd, dst, local, names \ dirs,
                       force),
             cwd, dst, local, force, fuel, dirs)
WalkAt(fs, cwd, dst, local, force, fuel, top) ==
    IF ~IsDirAt(fs, top) THEN Res(fs, "ok")
    ELSE IF fuel = 0 THEN Res(fs, "loop")
    ELSE WalkDir(fs, cwd, dst, local, force, fuel, ListDir(fs, top.p), SubDirs(fs, top.p))
Walk(fs, cwd, dst, local, force, fuel) ==
    WalkAt(fs, cwd, dst, local, force, fuel, SPath(fs, Abspath(Join(cwd, local))))
WalkInto(fs, cwd, dst, local, force, fuel, dirs) ==
    IF dirs = {} THEN Res(fs, "ok")
    ELSE WalkIntoRest(Walk(fs, cwd, dst, Join(local, Pick(dirs)), force, fuel - 1),
                      cwd, dst, local, force, fuel, dirs \ {Pick(dirs)})
WalkIntoRest(r, cwd, dst, local, force, fuel, dirs) ==
    IF r.st # "ok" THEN r ELSE WalkInto(r.fs, cwd, dst, local, force, fuel, dirs)

\* hardlink(src, dst, force): lines 48-79 when src is a directory, lines 82-86
\* when it is a file.
HardlinkDir(fs, src, dst, force) ==
    IF ~IsDir(fs, src) THEN Res(fs, "ok")
    ELSE IF IsFile(fs, dst) THEN Res(fs, "exit")
    ELSE Walk(fs, Realpath(fs, src), dst, <<".">>, force, MaxWalkDepth)
\* A link of a source file that does not look at what dst is.
HardlinkFileUnchecked(fs, src, dst, force) ==
    IF ~IsFile(fs, src) THEN Res(fs, "ok")
    ELSE LinkMade(Makedirs(fs, Dirname(dst)), src, dst, force)
\* Lines 81-86: the link of a source file.
HardlinkFile(fs, src, dst, force) ==
    IF ~IsFile(fs, src) THEN Res(fs, "ok")
    ELSE IF IsDir(fs, dst) THEN Res(fs, "exit")
    ELSE LinkMade(Makedirs(fs, Dirname(dst)), src, dst, force)
HardlinkRest(r, src, dst, force) ==
    IF r.st # "ok" THEN r ELSE HardlinkFile(r.fs, src, dst, force)
HardlinkAbs(fs, src, dst, force) ==
    IF ~Exists(fs, src) THEN Res(fs, "exit")
    ELSE HardlinkRest(HardlinkDir(fs, src, dst, force), src, dst, force)
Hardlink(fs, src, dst, force) == HardlinkAbs(fs, Abspath(src), Abspath(dst), force)

(***************************************************************************)
(* process_torrents/base.py: configuration and helpers.                    *)
(***************************************************************************)
DAY_SECONDS == 86400

\* An optional number of the configuration (dir_config.get('ratio')): set is
\* FALSE for None.
Unset == [set |-> FALSE, v |-> 0]
Num(n) == [set |-> TRUE, v |-> n]
\* Python's truth value of an optional number.
Truthy(x) == x.set /\ x.v # 0

\* Command.get_local_path(remote_path, mapped_paths, reverse)
RECURSIVE MapPath(_, _, _)
MapPath(path, mapped, reverse) ==
    IF mapped = <<>> THEN path
    ELSE IF StartsWith(path, Head(mapped)[IF reverse THEN 2 ELSE 1])
         THEN Replace(path, Head(mapped)[IF reverse THEN 2 ELSE 1],
                      Head(mapped)[IF reverse THEN 1 ELSE 2])
    ELSE MapPath(path, Tail(mapped), reverse)

get_local_path(remote_path, mapped) == MapPath(remote_path, mapped, FALSE)
get_remote_path(local_path, mapped) == MapPath(local_path, mapped, TRUE)

\* The index of the first rule whose download_dir the local path starts with
\* (0: none), lines 108-116.
RECURSIVE FirstRule(_, _, _)
FirstRule(rules, local_path, i) ==
    IF i > Len(rules) THEN 0
    ELSE IF StartsWith(local_path, rules[i].download_dir) THEN i
    ELSE FirstRule(rules, local_path, i + 1)

\* Line 120. percentDone is in percent.
Downloaded(t) == t.percentDone = 100

\* A run that never looks the item up in the store.
ProcessedNever(t, store, remote_path) == FALSE

\* Line 123.
Processed(t, store, remote_path) == Downloaded(t) /\ remote_path \in store

\* Seeding that takes both thresholds to be unmet.
SeedingBoth(t, rule) ==
    /\ (Truthy(rule.ratio) /\ rule.ratio.v > t.uploadRatio)
    /\ (Truthy(rule.seed_days) /\ rule.seed_days.v * DAY_SECONDS > t.secondsSeeding)

\* Lines 126-130.
Seeding(t, rule) ==
    \/ (Truthy(rule.ratio) /\ rule.ratio.v > t.uploadRatio)
    \/ (Truthy(rule.seed_days) /\ rule.seed_days.v * DAY_SECONDS > t.secondsSeeding)

\* The branch taken for a matched item, lines 134-166: merge, remove, keep (the
\* item has finished seeding and removal is disabled) or active.
Decide(t, rule, store, remote_path, removal) ==
    IF Downloaded(t) /\ ~Processed(t, store, remote_path) THEN "merge"
    ELSE IF Processed(t, store, remote_path) /\ ~Seeding(t, rule)
         THEN (IF removal THEN "remove" ELSE "keep")
    ELSE "active"

\* Whether the sweep takes an entry for a found torrent's, lines 209-212.
FoundMatch(local_path, found) ==
    \E found_torrent \in found : StartsWith(local_path, found_torrent)

\* The destination of a merge, lines 136-139 and 229-232.
Destination(rule, local_path) ==
    Join(rule.post_processing_dir, Relpath(local_path, rule.download_dir))

\* The merge of a dry run: the checks on src and dst are made, nothing is changed.
DryLink(fs, src, dst) ==
    IF \/ ~Exists(fs, src)
       \/ (IsDir(fs, src) /\ IsFile(fs, dst))
       \/ (IsFile(fs, src) /\ IsDir(fs, dst))
    THEN Res(fs, "exit") ELSE Res(fs, "ok")

\* link(src, dst) of line 53: hardlink.Command(dry_run, force=True).
LinkCommand(fs, src, dst, dry) ==
    IF dry THEN DryLink(fs, Abspath(src), Abspath(dst)) ELSE Hardlink(fs, src, dst, TRUE)

\* Lines 242-245: shutil.rmtree, and os.remove when that raises OSError.
RemoveFile(fs, r2) == IF r2.err = "ok" THEN Res(r2.fs, "ok") ELSE Res(fs, "raise")
RemoveTree(fs, local_path, r) ==
    IF r.err = "ok" THEN Res(r.fs, "ok") ELSE RemoveFile(fs, Remove(fs, local_path))
RemoveOrphan(fs, local_path) == RemoveTree(fs, local_path, RmTree(fs, local_path))

\* The remote client's torrent-remove with delete_local_data: the item leaves
\* the client's list and its data is deleted.
DeleteAt(fs, r) ==
    IF Present(fs, r) /\ r.p # Root THEN Without(fs, Below(fs, r.p) \cup {r.p}) ELSE fs
DeleteData(fs, local_path) == DeleteAt(fs, LPath(fs, local_path))

\* The remote list without the item of this id.
RECURSIVE DropItem(_, _)
DropItem(items, id) ==
    IF items = <<>> THEN <<>>
    ELSE IF Head(items).id = id THEN DropItem(Tail(items), id)
    ELSE <<Head(items)>> \o DropItem(Tail(items), id)

(***************************************************************************)
(* The state.                                                              *)
(***************************************************************************)
VARIABLES
    fs,        \* the file system
    db,        \* the processed store: the set of its keys (every value is True)
    remote,    \* the items the remote client holds, in the order it lists them
    config,    \* the configuration: torrent_dirs (rules) and mapped_remote_paths
    dry_run,   \* self.dry_run of the current run
    remove,    \* self.remove of the current run
    pc,        \* where the run is: idle, classify, sweep, prune, done, crashed, error
    torrents,  \* the list fetched by this run
    ti,        \* the index of the next item of torrents
    found_torrents, \* found_torrents of this run
    ri,        \* the rule whose download_dir is swept
    entries,   \* the names of os.listdir(download_dir) not yet visited
    keys,      \* the keys of list(db) not yet visited
    last,      \* what the last step did
    ops,       \* the mutations of this run so far
    start,     \* fs, db and remote when this run started
    prev,      \* how the run before this one went
    ext,       \* whether anything outside changed since the run before ended
    msrc, mdst, mforce, mst, \* one call of hardlink(src, dst, force) and its status
    qpath,     \* a path given to get_local_path or to get_remote_path
    qrev,      \* which of the two: FALSE get_local_path, TRUE get_remote_path
    qmid,      \* what it returned
    qback,     \* what the other one returned for that
    qst        \* none, start, mapped, back

vars == <<fs, db, remote, config, dry_run, remove, pc, torrents, ti,
          found_torrents, ri, entries, keys, last, ops, start, prev, ext,
          msrc, mdst, mforce, mst, qpath, qrev, qmid, qback, qst>>

runVars == <<config, prev, ext>>
mergeVars == <<msrc, mdst, mforce, mst>>
mapVars == <<qpath, qrev, qmid, qback, qst>>

\* No path is being mapped.
NoMap ==
    /\ qpath = <<>>
    /\ qrev = FALSE
    /\ qmid = <<>>
    /\ qback = <<>>
    /\ qst = "none"

(***************************************************************************)
(* The states a run starts from.                                           *)
(***************************************************************************)
dD == <<"/", "d">>
dP == <<"/", "p">>
dE == <<"/", "e">>
dQ == <<"/", "q">>
dR == <<"/", "r">>
dX == <<"/", "x">>
nA == <<"a">>
nAB == <<"a", "b">>
nB == <<"b">>
nF == <<"f">>
nH == <<".", "h">>
nO == <<"o">>
nS == <<"s">>
nU == <<"u">>
nXf == <<"x">>
nZ == <<"z">>

\* Two download directories; /d holds the data of item 1 (a), a file whose name
\* starts with that name (ab), an orphaned directory (o), a hidden file (.h)
\* and the directory (s) item 3 downloads into; /e holds an orphaned file.
\* When blocked, the post-processing directory /p already holds a directory
\* where item 1 has a file and a file where the orphan is a directory, so that
\* their merges fail.
RunFs(blocked) ==
    [q \in {dD, dP, dE, dQ, Child(dD, nA), Child(dD, nAB), Child(dD, nO),
            Child(Child(dD, nO), nF), Child(dD, nH), Child(dD, nS),
            Child(Child(dD, nS), nB), Child(dE, nXf)}
           \cup (IF blocked THEN {Child(dP, nA), Child(dP, nO)} ELSE {}) |->
        IF q = Child(dD, nA) THEN File(1)
        ELSE IF q = Child(dD, nAB) THEN File(2)
        ELSE IF q = Child(Child(dD, nO), nF) THEN File(3)
        ELSE IF q = Child(dD, nH) THEN File(4)
        ELSE IF q = Child(Child(dD, nS), nB) THEN File(5)
        ELSE IF q = Child(dE, nXf) THEN File(6)
        ELSE IF q = Child(dP, nO) THEN File(7)
        ELSE Dir]

Thresholds == {<<Unset, Unset>>, <<Num(0), Unset>>, <<Num(2), Unset>>, <<Num(2), Num(1)>>}

Configs ==
    {[rules |-> << [download_dir |-> dD, post_processing_dir |-> dP,
                    ratio |-> th[1], seed_days |-> th[2]],
                   [download_dir |-> dE, post_processing_dir |-> dQ,
                    ratio |-> Unset, seed_days |-> Unset] >>,
      mapped |-> << <<dR, dD>> >>] : th \in Thresholds}

\* percentDone, uploadRatio, secondsSeeding of item 1.
Metrics == {<<50, 0, 0>>, <<100, -1, 0>>, <<100, 1, 0>>, <<100, 3, 0>>, <<100, 3, 90000>>}

Item(id, dir, name, m) ==
    [id |-> id, downloadDir |-> dir, name |-> name, percentDone |-> m[1],
     uploadRatio |-> m[2], secondsSeeding |-> m[3]]

\* Item 1 matches the first rule, item 2 no rule, item 3 downloads into a
\* directory below the first rule's download_dir.
Remotes ==
    {<< Item(1, dR, nA, m), Item(2, dX, nU, <<100, 0, 0>>),
        Item(3, Child(dR, nS), nB, <<50, 0, 0>>) >> : m \in Metrics}

Stores ==
    {{}, {Child(dR, nA)}, {Child(dR, nA), Child(dR, nZ)},
     {Child(dR, nO), Child(dR, nZ), Child(dR, nH)}}

NoStep == [phase |-> "none", kind |-> "none", key |-> <<>>, path |-> <<>>,
           dst |-> <<>>, st |-> "ok", did |-> {}]
Step(phase, kind, key, path, dst, st, did) ==
    [phase |-> phase, kind |-> kind, key |-> key, path |-> path, dst |-> dst,
     st |-> st, did |-> did]

NoRun == [end |-> "none", dry_run |-> FALSE, remove |-> FALSE, ops |-> {}]

Init ==
    /\ fs \in {RunFs(FALSE), RunFs(TRUE)}
    /\ db \in Stores
    /\ remote \in Remotes
    /\ config \in Configs
    /\ dry_run = FALSE
    /\ remove = TRUE
    /\ pc = "idle"
    /\ torrents = <<>>
    /\ ti = 1
    /\ found_torrents = {}
    /\ ri = 1
    /\ entries = {}
    /\ keys = {}
    /\ last = NoStep
    /\ ops = {}
    /\ start = [fs |-> fs, db |-> db, remote |-> remote]
    /\ prev = NoRun
    /\ ext = FALSE
    /\ msrc = <<>>
    /\ mdst = <<>>
    /\ mforce = FALSE
    /\ mst = "none"
    /\ NoMap

\* A start that goes on to the items whatever the loading and the fetching did.
StartRunOn ==
    /\ pc = "idle"
    /\ \E d \in BOOLEAN, r \in BOOLEAN, outcome \in {"ok", "config", "database", "connect"} :
          /\ dry_run' = d
          /\ remove' = r
          /\ pc' = "classify"
          /\ torrents' = remote
          /\ last' = Step("start", outcome, <<>>, <<>>, <<>>, "ok", {})
    /\ ti' = 1
    /\ found_torrents' = {}
    /\ ri' = 1
    /\ entries' = {}
    /\ keys' = {}
    /\ ops' = {}
    /\ start' = [fs |-> fs, db |-> db, remote |-> remote]
    /\ UNCHANGED <<fs, db, remote, runVars, mergeVars, mapVars>>

(***************************************************************************)
(* Command.__call__, one step at a time.                                   *)
(***************************************************************************)
\* Lines 53-97: the configuration and the store are loaded and the items are
\* fetched; a failure of any of the three ends the run in _err (exit(1)).
StartRun ==
    /\ pc = "idle"
    /\ \E d \in BOOLEAN, r \in BOOLEAN, outcome \in {"ok", "config", "database", "connect"} :
          /\ dry_run' = d
          /\ remove' = r
          /\ pc' = IF outcome = "ok" THEN "classify" ELSE "error"
          /\ torrents' = IF outcome = "ok" THEN remote ELSE <<>>
          /\ last' = Step("start", outcome, <<>>, <<>>, <<>>, "ok", {})
    /\ ti' = 1
    /\ found_torrents' = {}
    /\ ri' = 1
    /\ entries' = {}
    /\ keys' = {}
    /\ ops' = {}
    /\ start' = [fs |-> fs, db |-> db, remote |-> remote]
    /\ UNCHANGED <<fs, db, remote, runVars, mergeVars, mapVars>>

\* The mutations of a merge step.
MergeDid(r) == IF dry_run THEN {} ELSE IF r.st = "ok" THEN {"link", "set"} ELSE {"link"}

\* A merge step that records the item in a dry run too.
MergeItemDry(r, remote_path, local_path, destination) ==
    /\ fs' = r.fs
    /\ db' = IF r.st = "ok" THEN db \cup {remote_path} ELSE db
    /\ pc' = IF r.st = "ok" THEN pc ELSE "crashed"
    /\ last' = Step("classify", "merge", remote_path, local_path, destination, r.st,
                    MergeDid(r))
    /\ ops' = ops \cup MergeDid(r)
    /\ UNCHANGED remote

\* Lines 135-142: the item is merged and, after a merge that returned in a run
\* that is not dry, recorded.
MergeItem(r, remote_path, local_path, destination) ==
    /\ fs' = r.fs
    /\ db' = IF r.st = "ok" /\ ~dry_run THEN db \cup {remote_path} ELSE db
    /\ pc' = IF r.st = "ok" THEN pc ELSE "crashed"
    /\ last' = Step("classify", "merge", remote_path, local_path, destination, r.st,
                    MergeDid(r))
    /\ ops' = ops \cup MergeDid(r)
    /\ UNCHANGED remote

\* A removal that deletes the record before the client has answered.
RemoveItemFirst(torrent, remote_path, local_path) ==
    \E answered \in BOOLEAN :
        /\ db' = db \ {remote_path}
        /\ IF answered
           THEN /\ remote' = DropItem(remote, torrent.id)
                /\ fs' = DeleteData(fs, local_path)
                /\ last' = Step("classify", "remove", remote_path, local_path, <<>>,
                                "ok", {"rpc", "del"})
                /\ ops' = ops \cup {"rpc", "del"}
                /\ UNCHANGED pc
           ELSE /\ pc' = "crashed"
                /\ last' = Step("classify", "remove", remote_path, local_path, <<>>,
                                "raise", {"del"})
                /\ ops' = ops \cup {"del"}
                /\ UNCHANGED <<fs, remote>>

\* Lines 154-160: torrent-remove is sent; when the client has answered, the
\* record is deleted; when it cannot be reached, the exception ends the run.
RemoveItem(torrent, remote_path, local_path) ==
    \E answered \in BOOLEAN :
        IF answered
        THEN /\ remote' = DropItem(remote, torrent.id)
             /\ fs' = DeleteData(fs, local_path)
             /\ db' = db \ {remote_path}
             /\ last' = Step("classify", "remove", remote_path, local_path, <<>>, "ok",
                             {"rpc", "del"})
             /\ ops' = ops \cup {"rpc", "del"}
             /\ UNCHANGED pc
        ELSE /\ pc' = "crashed"
             /\ last' = Step("classify", "remove", remote_path, local_path, <<>>,
                             "raise", {})
             /\ UNCHANGED <<fs, db, remote, ops>>

\* Lines 116-183: an item whose local path starts with the rule's download_dir.
ClassifyMatched(torrent, remote_path, local_path, rule, choice) ==
    /\ found_torrents' = found_torrents \cup {local_path}
    /\ IF choice = "merge"
       THEN MergeItem(LinkCommand(fs, local_path, Destination(rule, local_path), dry_run),
                      remote_path, local_path, Destination(rule, local_path))
       ELSE IF choice = "remove" /\ ~dry_run
       THEN RemoveItem(torrent, remote_path, local_path)
       ELSE /\ last' = Step("classify", choice, remote_path, local_path, <<>>, "ok", {})
            /\ UNCHANGED <<fs, db, remote, pc, ops>>

\* Lines 108-189: the first rule that matches, or none.
ClassifyRule(torrent, remote_path, local_path, i) ==
    IF i = 0
    THEN /\ last' = Step("classify", "unmatched", remote_path, local_path, <<>>, "ok", {})
         /\ UNCHANGED <<fs, db, remote, pc, found_torrents, ops>>
    ELSE ClassifyMatched(torrent, remote_path, local_path, config.rules[i],
                         Decide(torrent, config.rules[i], db, remote_path, remove))

ClassifyPath(torrent, remote_path, local_path) ==
    ClassifyRule(torrent, remote_path, local_path, FirstRule(config.rules, local_path, 1))

ClassifyItem(torrent, remote_path) ==
    ClassifyPath(torrent, remote_path, get_local_path(remote_path, config.mapped))

\* Lines 100-189: one item of the fetched list.
Classify ==
    /\ pc = "classify"
    /\ ti <= Len(torrents)
    /\ ClassifyItem(torrents[ti], Join(torrents[ti].downloadDir, torrents[ti].name))
    /\ ti' = ti + 1
    /\ UNCHANGED <<dry_run, remove, torrents, ri, entries, keys, start, runVars, mergeVars, mapVars>>

\* Line 192 and line 200: the sweep comes to rule i and lists its download_dir;
\* after the last rule, line 252 takes list(db).
BeginRule(i) ==
    /\ ri' = i
    /\ IF i > Len(config.rules)
       THEN /\ pc' = "prune"
            /\ entries' = {}
            /\ keys' = db
       ELSE /\ pc' = IF IsDir(fs, config.rules[i].download_dir) THEN "sweep" ELSE "crashed"
            /\ entries' = IF IsDir(fs, config.rules[i].download_dir)
                          THEN ListDir(fs, SPath(fs, config.rules[i].download_dir).p)
                          ELSE {}
            /\ keys' = {}

\* A sweep that starts before the last item has been classified.
EndClassifyEarly ==
    /\ pc = "classify"
    /\ ti >= Len(torrents)
    /\ BeginRule(1)
    /\ last' = Step("sweep", "list", <<>>, <<>>, <<>>, "ok", {})
    /\ UNCHANGED <<fs, db, remote, dry_run, remove, torrents, ti, found_torrents,
                   ops, start, runVars, mergeVars, mapVars>>

\* Lines 97-200: the loop over the items is over, the first rule is swept.
EndClassify ==
    /\ pc = "classify"
    /\ ti > Len(torrents)
    /\ BeginRule(1)
    /\ last' = Step("sweep", "list", <<>>, <<>>, <<>>, "ok", {})
    /\ UNCHANGED <<fs, db, remote, dry_run, remove, torrents, ti, found_torrents,
                   ops, start, runVars, mergeVars, mapVars>>

\* Lines 217-248: an entry that belongs to no found torrent. r is what the merge
\* left (nothing is merged when the entry has a record), rm what the removal left.
OrphanDid(r, rm, processed) ==
    IF dry_run THEN {}
    ELSE (IF processed THEN {} ELSE {"link"})
         \cup (IF r.st = "ok" THEN {"rm"} ELSE {})
         \cup (IF rm.st = "ok" /\ processed THEN {"del"} ELSE {})
SweepRemoved(r, rm, local_path, remote_path, processed, destination) ==
    /\ fs' = rm.fs
    /\ db' = IF rm.st = "ok" /\ ~dry_run THEN db \ {remote_path} ELSE db
    /\ pc' = IF rm.st = "ok" THEN pc ELSE "crashed"
    /\ last' = Step("sweep", IF processed THEN "processed" ELSE "orphan", remote_path,
                    local_path, destination, rm.st, OrphanDid(r, rm, processed))
    /\ ops' = ops \cup OrphanDid(r, rm, processed)
SweepLinked(r, local_path, remote_path, processed, destination) ==
    SweepRemoved(r, IF r.st = "ok" /\ ~dry_run THEN RemoveOrphan(r.fs, local_path) ELSE r,
                 local_path, remote_path, processed, destination)
SweepOrphan(rule, local_path, remote_path) ==
    SweepLinked(IF remote_path \in db THEN Res(fs, "ok")
                ELSE LinkCommand(fs, local_path, Destination(rule, local_path), dry_run),
                local_path, remote_path, remote_path \in db,
                Destination(rule, local_path))

\* A sweep that does not look at the first character of the name.
SweepEntryAll(rule, path, local_path) ==
    IF FoundMatch(local_path, found_torrents)
    THEN /\ last' = Step("sweep", "tracked", <<>>, local_path, <<>>, "ok", {})
         /\ UNCHANGED <<fs, db, pc, ops>>
    ELSE SweepOrphan(rule, local_path, get_remote_path(local_path, config.mapped))

\* Lines 200-215: hidden, a found torrent's, or an orphan.
SweepEntry(rule, path, local_path) ==
    IF path[1] = "."
    THEN /\ last' = Step("sweep", "hidden", <<>>, local_path, <<>>, "ok", {})
         /\ UNCHANGED <<fs, db, pc, ops>>
    ELSE IF FoundMatch(local_path, found_torrents)
    THEN /\ last' = Step("sweep", "tracked", <<>>, local_path, <<>>, "ok", {})
         /\ UNCHANGED <<fs, db, pc, ops>>
    ELSE SweepOrphan(rule, local_path, get_remote_path(local_path, config.mapped))

\* Lines 200-248: one entry of the listing (os.listdir's order is not specified:
\* the model takes one order).
Sweep ==
    /\ pc = "sweep"
    /\ entries # {}
    /\ entries' = entries \ {Pick(entries)}
    /\ SweepEntry(config.rules[ri], Pick(entries),
                  Join(config.rules[ri].download_dir, Pick(entries)))
    /\ UNCHANGED <<remote, dry_run, remove, torrents, ti, found_torrents, ri, keys,
                   start, runVars, mergeVars, mapVars>>

NextRule ==
    /\ pc = "sweep"
    /\ entries = {}
    /\ BeginRule(ri + 1)
    /\ last' = Step(IF ri + 1 > Len(config.rules) THEN "prune" ELSE "sweep", "list",
                    <<>>, <<>>, <<>>, "ok", {})
    /\ UNCHANGED <<fs, db, remote, dry_run, remove, torrents, ti, found_torrents,
                   ops, start, runVars, mergeVars, mapVars>>

\* A pruning that deletes in a dry run too.
PruneKeyReal(remote_path, local_path, stale) ==
    /\ db' = IF stale THEN db \ {remote_path} ELSE db
    /\ last' = Step("prune", IF stale THEN "stale" ELSE "kept", remote_path, local_path,
                    <<>>, "ok", IF stale THEN {"del"} ELSE {})
    /\ ops' = ops \cup (IF stale THEN {"del"} ELSE {})

\* Lines 254-262: the record is deleted when its local path does not exist.
PruneKey(remote_path, local_path, stale) ==
    /\ db' = IF stale /\ ~dry_run THEN db \ {remote_path} ELSE db
    /\ last' = Step("prune", IF stale THEN "stale" ELSE "kept", remote_path, local_path,
                    <<>>, "ok", IF stale /\ ~dry_run THEN {"del"} ELSE {})
    /\ ops' = ops \cup (IF stale /\ ~dry_run THEN {"del"} ELSE {})

\* A pruning that takes every record for stale.
PruneAtAll(remote_path, local_path) == PruneKey(remote_path, local_path, TRUE)

\* Line 258: the test made on the record's local path.
PruneAt(remote_path, local_path) ==
    PruneKey(remote_path, local_path, ~Exists(fs, local_path))

\* Lines 252-262: one key of list(db) (a dict's order is not specified: the
\* model takes one order).
Prune ==
    /\ pc = "prune"
    /\ keys # {}
    /\ keys' = keys \ {Pick(keys)}
    /\ PruneAt(Pick(keys), get_local_path(Pick(keys), config.mapped))
    /\ UNCHANGED <<fs, remote, dry_run, remove, pc, torrents, ti, found_torrents, ri,
                   entries, start, runVars, mergeVars, mapVars>>

\* The end of __call__.
EndRun ==
    /\ pc = "prune"
    /\ keys = {}
    /\ pc' = "done"
    /\ last' = Step("done", "done", <<>>, <<>>, <<>>, "ok", {})
    /\ UNCHANGED <<fs, db, remote, dry_run, remove, torrents, ti, found_torrents, ri,
                   entries, keys, ops, start, runVars, mergeVars, mapVars>>

(***************************************************************************)
(* Between runs.                                                           *)
(***************************************************************************)
\* The program is run again.
NextRun ==
    /\ pc \in {"done", "crashed", "error"}
    /\ pc' = "idle"
    /\ prev' = [end |-> pc, dry_run |-> dry_run, remove |-> remove, ops |-> ops]
    /\ ext' = FALSE
    /\ last' = NoStep
    /\ UNCHANGED <<fs, db, remote, config, dry_run, remove, torrents, ti,
                   found_torrents, ri, entries, keys, ops, start, mergeVars, mapVars>>

\* The remote client goes on downloading and seeding: the metrics of an item
\* grow between two runs.
Progress ==
    /\ pc = "idle"
    /\ prev.end # "none"
    /\ ~ext
    /\ \E k \in 1..Len(remote), m \in Metrics :
          /\ remote[k].id = 1
          /\ m[1] >= remote[k].percentDone
          /\ m[2] >= remote[k].uploadRatio
          /\ m[3] >= remote[k].secondsSeeding
          /\ Item(1, remote[k].downloadDir, remote[k].name, m) # remote[k]
          /\ remote' = [remote EXCEPT ![k] = Item(1, remote[k].downloadDir,
                                                   remote[k].name, m)]
    /\ ext' = TRUE
    /\ UNCHANGED <<fs, db, config, dry_run, remove, pc, torrents, ti,
                   found_torrents, ri, entries, keys, last, ops, start, prev, mergeVars, mapVars>>

Next ==
    \/ StartRun
    \/ Classify
    \/ EndClassify
    \/ Sweep
    \/ NextRule
    \/ Prune
    \/ EndRun
    \/ NextRun
    \/ Progress

Spec == Init /\ [][Next]_vars

(***************************************************************************)
(* Runs over a client that forgets an item and a post_processing_dir that  *)
(* is not empty.                                                           *)
(***************************************************************************)
\* The file system of RunFs with one more file, /d/d, and a directory /p/o/f
\* where the download_dir has the file /d/o/f.
RunsFs ==
    [q \in DOMAIN RunFs(FALSE)
           \cup {Child(dD, <<"d">>), Child(dP, nO), Child(Child(dP, nO), nF)} |->
        IF q = Child(dD, <<"d">>) THEN File(8)
        ELSE IF q \in DOMAIN RunFs(FALSE) THEN RunFs(FALSE)[q]
        ELSE Dir]

\* One item, /r/a or /r/d, complete or not; no record; no threshold.
RInit ==
    /\ fs = RunsFs
    /\ db = {}
    /\ remote \in {<< Item(1, dR, name, m) >> :
                     name \in {nA, <<"d">>}, m \in {<<50, 0, 0>>, <<100, 0, 0>>}}
    /\ config \in {c \in Configs : ~c.rules[1].ratio.set /\ ~c.rules[1].seed_days.set}
    /\ dry_run = FALSE
    /\ remove = TRUE
    /\ pc = "idle"
    /\ torrents = <<>>
    /\ ti = 1
    /\ found_torrents = {}
    /\ ri = 1
    /\ entries = {}
    /\ keys = {}
    /\ last = NoStep
    /\ ops = {}
    /\ start = [fs |-> fs, db |-> db, remote |-> remote]
    /\ prev = NoRun
    /\ ext = FALSE
    /\ msrc = <<>>
    /\ mdst = <<>>
    /\ mforce = FALSE
    /\ mst = "none"
    /\ NoMap

\* Between two runs the item is removed from the remote client by someone
\* else, its data left where it is: torrent-get reports it no more.
Forget ==
    /\ pc = "idle"
    /\ prev.end # "none"
    /\ ~ext
    /\ remote # <<>>
    /\ remote' = <<>>
    /\ ext' = TRUE
    /\ UNCHANGED <<fs, db, config, dry_run, remove, pc, torrents, ti,
                   found_torrents, ri, entries, keys, last, ops, start, prev, mergeVars,
                   mapVars>>

RNext == Next \/ Forget

SpecRuns == RInit /\ [][RNext]_vars

(***************************************************************************)
(* hardlink.py on its own: one call of hardlink(src, dst, force).          *)
(***************************************************************************)
dL == <<"/", "l">>
dN == <<"/", "n">>
dM == <<"/", "m">>
dT == <<"/", "t">>
nK == <<"k">>
nL == <<"l">>

\* The source tree /d holds a file (a), a directory (o) with a file (f), a
\* symlink to that file (l), a symlink to a file outside the tree (x -> /e/x)
\* and, when deep, a symlink to that directory (k), a symlink to a directory
\* outside the tree (s -> /e) and a dangling symlink (b -> /n).
\* /p holds a file where the source has one and a symlink to a file where the
\* source has a symlink, /q a directory where the source has a file and a
\* symlinked directory where the source has a directory, /t a file where the
\* source has a directory; /l is a symlink to the source tree and /m a symlink
\* to the directory /e.
MergeFs(deep) ==
    [q \in {dD, Child(dD, nA), Child(dD, nO), Child(Child(dD, nO), nF), Child(dD, nL),
            Child(dD, nXf), dP, Child(dP, nA), Child(dP, nL), dQ, Child(dQ, nA),
            Child(dQ, nO), dE, Child(dE, nXf), dL, dM, dT, Child(dT, nO)}
           \cup (IF deep THEN {Child(dD, nK), Child(dD, nS), Child(dD, nB)} ELSE {}) |->
        IF q = Child(dD, nA) THEN File(1)
        ELSE IF q = Child(Child(dD, nO), nF) THEN File(2)
        ELSE IF q = Child(dD, nL) THEN Symlink(Child(dD, nA))
        ELSE IF q = Child(dD, nXf) THEN Symlink(Child(dE, nXf))
        ELSE IF q = Child(dD, nK) THEN Symlink(Child(dD, nO))
        ELSE IF q = Child(dD, nS) THEN Symlink(dE)
        ELSE IF q = Child(dD, nB) THEN Symlink(dN)
        ELSE IF q = Child(dE, nXf) THEN File(6)
        ELSE IF q = Child(dP, nA) THEN File(9)
        ELSE IF q = Child(dP, nL) THEN Symlink(Child(dP, nA))
        ELSE IF q = Child(dQ, nO) THEN Symlink(dE)
        ELSE IF q = Child(dT, nO) THEN File(8)
        ELSE IF q = dL THEN Symlink(dD)
        ELSE IF q = dM THEN Symlink(dE)
        ELSE Dir]

MergeSrcs == {dD, Child(dD, nA), Child(dD, nO), dL, dN}
MergeDsts == {dP, dQ, dN, dD, dL, dM, dT, Child(dD, nA), Child(dD, nO), Child(dD, nZ),
              Child(dP, nA), Child(dP, nL), Child(dQ, nA)}

MInit ==
    /\ fs \in {MergeFs(FALSE), MergeFs(TRUE)}
    /\ msrc \in MergeSrcs
    /\ mdst \in MergeDsts
    /\ mforce \in BOOLEAN
    /\ mst = "none"
    /\ NoMap
    /\ db = {}
    /\ remote = <<>>
    /\ config = [rules |-> <<>>, mapped |-> <<>>]
    /\ dry_run = FALSE
    /\ remove = TRUE
    /\ pc = "merge"
    /\ torrents = <<>>
    /\ ti = 1
    /\ found_torrents = {}
    /\ ri = 1
    /\ entries = {}
    /\ keys = {}
    /\ last = NoStep
    /\ ops = {}
    /\ start = [fs |-> fs, db |-> db, remote |-> remote]
    /\ prev = NoRun
    /\ ext = FALSE

\* hardlink(src, dst, force) has returned, has exited or has raised.
MReturn(r) ==
    /\ fs' = r.fs
    /\ mst' = r.st

MHardlink ==
    /\ pc = "merge"
    /\ mst = "none"
    /\ MReturn(Hardlink(fs, msrc, mdst, mforce))
    /\ UNCHANGED <<db, remote, config, dry_run, remove, pc, torrents, ti, found_torrents,
                   ri, entries, keys, last, ops, start, prev, ext, msrc, mdst, mforce,
                   mapVars>>

MNext == MHardlink

SpecMerge == MInit /\ [][MNext]_vars

(***************************************************************************)
(* get_local_path and get_remote_path on their own: a path is mapped one   *)
(* way, and what comes out is mapped the other way.                        *)
(***************************************************************************)
\* mapped_remote_paths, as pairs <<remote prefix, local prefix>> in the order
\* of items(): one pair; two remote prefixes with one local prefix; a pair
\* whose prefix starts with the prefix of the pair before it, and the two the
\* other way round; a local prefix that holds the remote one; no pair.
Mappings ==
    { << <<dR, dD>> >>,
      << <<dR, dD>>, <<Child(Root, nS), dD>> >>,
      << <<dR, dD>>, <<Child(dR, nS), dE>> >>,
      << <<Child(dR, nS), dE>>, <<dR, dD>> >>,
      << <<dR, Child(dD, <<"r">>)>> >>,
      <<>> }

\* The paths given: below a prefix, with the prefix or the paired prefix inside
\* them once more, a prefix itself, a name that only starts like a prefix,
\* and paths below no prefix.
MapPaths ==
    { dR, Child(dR, nA), Child(dR, <<"r">>), Child(dR, <<"d">>), Child(dR, nS),
      Child(Child(dR, nS), nA), Child(Child(Root, nS), nA), dR \o <<"r">>,
      dD, Child(dD, nA), Child(dD, <<"d">>), Child(dD, <<"r">>),
      Child(Child(dD, <<"r">>), nA), Child(dE, nA), Child(dX, nA) }

PInit ==
    /\ config \in {[rules |-> <<>>, mapped |-> m] : m \in Mappings}
    /\ qpath \in MapPaths
    /\ qrev \in BOOLEAN
    /\ qmid = <<>>
    /\ qback = <<>>
    /\ qst = "start"
    /\ pc = "map"
    /\ fs = RunFs(FALSE)
    /\ db = {}
    /\ remote = <<>>
    /\ dry_run = FALSE
    /\ remove = TRUE
    /\ torrents = <<>>
    /\ ti = 1
    /\ found_torrents = {}
    /\ ri = 1
    /\ entries = {}
    /\ keys = {}
    /\ last = NoStep
    /\ ops = {}
    /\ start = [fs |-> fs, db |-> db, remote |-> remote]
    /\ prev = NoRun
    /\ ext = FALSE
    /\ msrc = <<>>
    /\ mdst = <<>>
    /\ mforce = FALSE
    /\ mst = "none"

\* get_local_path(path, mapped_paths), or get_remote_path(path, mapped_paths).
MapThere ==
    /\ pc = "map"
    /\ qst = "start"
    /\ qmid' = IF qrev THEN get_remote_path(qpath, config.mapped)
                       ELSE get_local_path(qpath, config.mapped)
    /\ qst' = "mapped"
    /\ UNCHANGED <<fs, db, remote, config, dry_run, remove, pc, torrents, ti, found_torrents,
                   ri, entries, keys, last, ops, start, prev, ext, mergeVars, qpath, qrev,
                   qback>>

\* The other one of the two, on what the first returned.
MapBack ==
    /\ pc = "map"
    /\ qst = "mapped"
    /\ qback' = IF qrev THEN get_local_path(qmid, config.mapped)
                        ELSE get_remote_path(qmid, config.mapped)
    /\ qst' = "back"
    /\ UNCHANGED <<fs, db, remote, config, dry_run, remove, pc, torrents, ti, found_torrents,
                   ri, entries, keys, last, ops, start, prev, ext, mergeVars, qpath, qrev,
                   qmid>>

PNext == MapThere \/ MapBack

SpecMap == PInit /\ [][PNext]_vars

(***************************************************************************)
(* Properties of get_local_path and get_remote_path, checked under SpecMap.*)
(***************************************************************************)
\* The prefix that the pair looks for in the path given, and the one it puts
\* in its place.
FromPrefix(pair, reverse) == pair[IF reverse THEN 2 ELSE 1]
ToPrefix(pair, reverse) == pair[IF reverse THEN 1 ELSE 2]

\* The path starts with the prefix of some pair.
Matches(path, mapped, reverse) ==
    \E i \in 1..Len(mapped) : StartsWith(path, FromPrefix(mapped[i], reverse))

\* The substitution as it is stated: the leading prefix of the first pair that
\* matches is replaced and the rest of the path is kept; no pair, no change.
RECURSIVE StatedMap(_, _, _)
StatedMap(path, mapped, reverse) ==
    IF mapped = <<>> THEN path
    ELSE IF StartsWith(path, FromPrefix(Head(mapped), reverse))
         THEN ToPrefix(Head(mapped), reverse)
                \o SubSeq(path, Len(FromPrefix(Head(mapped), reverse)) + 1, Len(path))
    ELSE StatedMap(path, Tail(mapped), reverse)

\* C11 as stated: a path that starts with the prefix of some pair comes back
\* unchanged from get_remote_path(get_local_path(p)), and from
\* get_local_path(get_remote_path(q)), whatever the mapping list is.
C11_RoundTrip ==
    (pc = "map" /\ qst = "back" /\ Matches(qpath, config.mapped, qrev)) =>
        qback = qpath

\* C12 as stated: get_local_path (and get_remote_path the other way) returns
\* the path with the leading prefix of the first pair that matches replaced,
\* the rest of the path unchanged, and the path itself when no pair matches.
C12_PrefixSubstitution ==
    (pc = "map" /\ qst # "start") =>
        qmid = StatedMap(qpath, config.mapped, qrev)

(***************************************************************************)
(* Properties of hardlink(src, dst, force), checked under SpecMerge.       *)
(***************************************************************************)
\* The relative paths of at most n names that exist below the path base in
\* the file system f, symlinks followed.
RECURSIVE RelsBelow(_, _, _)
RelsBelow(f, base, n) ==
    IF n = 0 \/ ~IsDir(f, base) THEN {}
    ELSE UNION {{<<e>>} \cup {<<e>> \o rel : rel \in RelsBelow(f, Child(base, e), n - 1)} :
                e \in ListDir(f, SPath(f, base).p)}

\* The relative paths of at most n names below src before the call, and the
\* empty one for src itself.
Rels(n) == {<<>>} \cup RelsBelow(start.fs, Abspath(msrc), n)

\* The path of rel below base.
RECURSIVE RelPath(_, _)
RelPath(base, rel) ==
    IF rel = <<>> THEN base ELSE RelPath(Child(base, Head(rel)), Tail(rel))

\* The call has returned (it has neither exited nor raised).
MergeReturned == pc = "merge" /\ mst = "ok"

\* rel is a file reachable under src before the call (src itself when rel is
\* empty), symlinks followed.
SourceFile(rel) == IsFile(start.fs, RelPath(Abspath(msrc), rel))

\* After the call the destination of rel exists and is the source file's inode.
LinkedSame(rel) ==
    /\ Exists(fs, RelPath(Abspath(mdst), rel))
    /\ InodeOf(fs, RelPath(Abspath(mdst), rel))
         = InodeOf(start.fs, RelPath(Abspath(msrc), rel))

\* The destination of rel was there before the call.
PreExisted(rel) == LExists(start.fs, RelPath(Abspath(mdst), rel))
PreExistedDir(rel) == IsDir(start.fs, RelPath(Abspath(mdst), rel))

\* dst is src itself or lies inside it, possibly through a symlink.
Overlapping ==
    \/ Realpath(start.fs, mdst) = Realpath(start.fs, msrc)
    \/ StartsWith(Realpath(start.fs, mdst), Child(Realpath(start.fs, msrc), <<>>))

\* C3 as stated: after hardlink(src, dst, force) has returned, every file
\* reachable under the source has a destination counterpart of the same inode,
\* unless that destination pre-existed and force was false.
C3_MergeAsStated ==
    MergeReturned =>
        \A rel \in Rels(MaxWalkDepth) :
            SourceFile(rel) => LinkedSame(rel) \/ (PreExisted(rel) /\ ~mforce)

\* C3 amended: after hardlink(src, dst, force) has returned, every file
\* reachable under the source has a destination counterpart of the same inode,
\* unless that destination pre-existed and force was false, or that destination
\* pre-existed as a directory (or a symlink to one), which is then left alone
\* whatever force is; this for a dst that is neither src itself nor inside it.
C3_MergeCorrect ==
    (MergeReturned /\ ~Overlapping) =>
        \A rel \in Rels(MaxWalkDepth) :
            SourceFile(rel) =>
                \/ LinkedSame(rel)
                \/ (PreExisted(rel) /\ ~mforce)
                \/ PreExistedDir(rel)

\* A forced merge of a directory has returned: it has replaced a file that
\* pre-existed by a link to the source file and has left alone a directory that
\* pre-existed where the source has a file.
C3_Witness ==
    /\ MergeReturned
    /\ ~Overlapping
    /\ mforce
    /\ IsDir(start.fs, msrc)
    /\ \E rel \in Rels(MaxWalkDepth) :
          SourceFile(rel) /\ PreExistedDir(rel) /\ ~LinkedSame(rel)
    /\ \E rel \in Rels(MaxWalkDepth) : SourceFile(rel) /\ LinkedSame(rel)

\* The nodes of the source tree before the call: src and everything below the
\* directory it resolves to.
SourceTree == {Realpath(start.fs, msrc)} \cup Below(start.fs, Realpath(start.fs, msrc))

\* C10 as stated: hardlink(src, dst, force) never removes, replaces or modifies
\* a file or directory of the source tree, whatever src, dst and force are and
\* whether it returns, exits or raises.
C10_SourceKept ==
    (pc = "merge" /\ mst # "none" /\ Exists(start.fs, msrc)) =>
        \A q \in SourceTree : q \in DOMAIN fs /\ fs[q] = start.fs[q]

\* The source and the destination path of rel.
SourcePath(rel) == RelPath(Abspath(msrc), rel)
DestPath(rel) == RelPath(Abspath(mdst), rel)

\* rel is a directory reachable under src before the call, symlinks followed.
SourceDir(rel) == IsDir(start.fs, SourcePath(rel))

\* Before the call the destination of rel was a symlink to a directory, a
\* symlink to a file, a regular file.
WasDirLink(rel) == IsLink(start.fs, DestPath(rel)) /\ IsDir(start.fs, DestPath(rel))
WasFileLink(rel) == IsLink(start.fs, DestPath(rel)) /\ IsFile(start.fs, DestPath(rel))
WasRegular(rel) == ~IsLink(start.fs, DestPath(rel)) /\ IsFile(start.fs, DestPath(rel))

\* After the call the destination of rel is a directory and no symlink.
RealDir(rel) == IsDir(fs, DestPath(rel)) /\ ~IsLink(fs, DestPath(rel))

\* C13 as stated: after hardlink(src, dst, force) has returned, every
\* destination of a source directory (dst itself included) that was a symlink
\* to a directory is a real directory, and every destination of a source file
\* that was a symlink to a file is a hard link to the source file, whatever
\* force is.
C13_SymlinksNormalized ==
    MergeReturned =>
        \A rel \in Rels(MaxWalkDepth) :
            /\ (SourceDir(rel) /\ WasDirLink(rel)) => RealDir(rel)
            /\ (SourceFile(rel) /\ WasFileLink(rel)) =>
                   (~IsLink(fs, DestPath(rel)) /\ LinkedSame(rel))

\* Every regular file there was before the call is still there, the same inode.
FilesKept ==
    \A q \in DOMAIN start.fs :
        start.fs[q].t = "file" => (q \in DOMAIN fs /\ fs[q] = start.fs[q])

\* The call is hardlink(src, dst, force) of a source file onto a regular file
\* that is another directory entry than the source.
FileOntoFile ==
    /\ pc = "merge"
    /\ mst # "none"
    /\ SourceFile(<<>>)
    /\ WasRegular(<<>>)
    /\ LPath(start.fs, mdst).p # LPath(start.fs, msrc).p

\* C14 as stated: when hardlink(src, dst, force) meets a destination that
\* exists as a file, then with force false the merge does not fail and that
\* destination is after the call what it was before, and with force true it is
\* a link to the source file.
C14_CollisionAsStated ==
    (pc = "merge" /\ mst \notin {"none", "exit"}) =>
        \A rel \in Rels(MaxWalkDepth) :
            (SourceFile(rel) /\ IsFile(start.fs, DestPath(rel))) =>
                IF mforce THEN LinkedSame(rel)
                ELSE /\ mst = "ok"
                     /\ IsLink(fs, DestPath(rel)) = IsLink(start.fs, DestPath(rel))
                     /\ InodeOf(fs, DestPath(rel)) = InodeOf(start.fs, DestPath(rel))

\* C14 amended: with force false hardlink(src, dst, force) removes and replaces
\* no regular file, and linking a file onto a regular file returns with nothing
\* changed; with force true, after the call has returned every destination that
\* was a regular file where the source has a file is a link to the source
\* file, and linking a file onto a regular file that is another directory
\* entry returns. A destination that was a symlink to a file is replaced by a
\* link to the source file whatever force is. The two statements about
\* destinations of a returned call are for a dst that is neither src itself
\* nor inside it.
C14_Collision ==
    /\ (pc = "merge" /\ mst # "none" /\ ~mforce) => FilesKept
    /\ (FileOntoFile /\ ~mforce) => (mst = "ok" /\ fs = start.fs)
    /\ (FileOntoFile /\ mforce) => (mst = "ok" /\ LinkedSame(<<>>))
    /\ (MergeReturned /\ ~Overlapping) =>
           \A rel \in Rels(MaxWalkDepth) :
               /\ (SourceFile(rel) /\ WasRegular(rel) /\ mforce) => LinkedSame(rel)
               /\ (SourceFile(rel) /\ WasFileLink(rel) /\ rel # <<>>) =>
                      (~IsLink(fs, DestPath(rel)) /\ LinkedSame(rel))

\* A merge of a directory with force false has returned and has left alone a
\* regular file that was in the way of a source file of another inode, and has
\* replaced a symlink to a file.
C14_Witness ==
    /\ MergeReturned
    /\ ~mforce
    /\ IsDir(start.fs, msrc)
    /\ \E rel \in Rels(MaxWalkDepth) :
          /\ SourceFile(rel)
          /\ WasRegular(rel)
          /\ InodeOf(start.fs, DestPath(rel)) # InodeOf(start.fs, SourcePath(rel))
          /\ InodeOf(fs, DestPath(rel)) = InodeOf(start.fs, DestPath(rel))
    /\ \E rel \in Rels(MaxWalkDepth) :
          SourceFile(rel) /\ WasFileLink(rel) /\ LinkedSame(rel)

\* a is a proper ancestor of the path p.
IsAncestor(a, p) == a # p /\ (a = Root \/ StartsWith(p, a \o <<SEP>>))

\* The files that the call has linked: the paths that hold a regular file
\* after the call and held none, or another one, before it.
NewLinks ==
    {q \in DOMAIN fs :
        fs[q].t = "file" /\ (q \notin DOMAIN start.fs \/ start.fs[q] # fs[q])}

\* The paths that the call has created, removed or replaced.
Changed ==
    {q \in DOMAIN fs \cup DOMAIN start.fs :
        q \notin DOMAIN fs \/ q \notin DOMAIN start.fs \/ fs[q] # start.fs[q]}

\* The inodes of the regular files of the subtree of src before the call.
SubtreeInodes == {start.fs[q].ino : q \in {q \in SourceTree : start.fs[q].t = "file"}}

\* dst is, or lies inside, a directory reachable under src before the call,
\* symlinks followed.
Entangled ==
    \E rel \in Rels(MaxWalkDepth) :
        /\ SourceDir(rel)
        /\ \/ Realpath(start.fs, mdst) = Realpath(start.fs, SourcePath(rel))
           \/ StartsWith(Realpath(start.fs, mdst),
                         Child(Realpath(start.fs, SourcePath(rel)), <<>>))

\* C15 as stated: every hard link that hardlink(src, dst, force) creates is a
\* link to a file of the subtree of src, also when the source holds symlinks
\* to directories or files elsewhere.
C15_ConfinedAsStated ==
    (pc = "merge" /\ mst # "none") =>
        \A q \in NewLinks : fs[q].ino \in SubtreeInodes

\* C15 amended: hardlink(src, dst, force) follows the symlinks of the source.
\* Every hard link it creates is, at the destination of a source entry, a link
\* to the file that this entry resolves to, inside the subtree of src or not
\* (this for a dst that is not, and is not inside, a directory that the
\* source reaches, through symlinks or not); and every path
\* it creates, removes or replaces is dst, below dst or a missing ancestor of
\* dst.
C15_Confined ==
    (pc = "merge" /\ mst # "none") =>
        /\ ~Entangled =>
             \A q \in NewLinks :
              \E rel \in Rels(MaxWalkDepth) :
                  /\ SourceFile(rel)
                  /\ LPath(fs, DestPath(rel)).p = q
                  /\ fs[q].ino = InodeOf(start.fs, SourcePath(rel))
        /\ \A q \in Changed :
              \/ q = LPath(start.fs, mdst).p
              \/ StartsWith(q, Child(Realpath(start.fs, mdst), <<>>))
              \/ (IsAncestor(q, Abspath(mdst)) /\ q \notin DOMAIN start.fs)

\* A merge has returned and has linked a file that is outside the subtree of
\* src, reached through a symlink of the source to a directory.
C15_Witness ==
    /\ MergeReturned
    /\ ~Entangled
    /\ \E q \in NewLinks : fs[q].ino \notin SubtreeInodes
    /\ \E rel \in Rels(MaxWalkDepth) :
          /\ Len(rel) = 2
          /\ SourceFile(rel)
          /\ IsLink(start.fs, SourcePath(<<rel[1]>>))
          /\ LinkedSame(rel)
          /\ InodeOf(start.fs, SourcePath(rel)) \notin SubtreeInodes

\* The first n names of rel.
Prefix(rel, n) == SubSeq(rel, 1, n)

\* Before the call a regular file stood at the destination of a directory of
\* the source that is above rel: the directory of rel cannot be created.
Blocked(rel) ==
    \E n \in 1..(Len(rel) - 1) :
        SourceDir(Prefix(rel, n)) /\ WasRegular(Prefix(rel, n))

\* C16 as stated: hardlink(src, dst, force) of a directory onto what is no
\* file returns, and has linked every file of the source but those it skips
\* with a warning: a destination that is there and force false, a destination
\* that is a directory, a destination below a directory whose creation a plain
\* file blocks. (A source entry that has vanished is no file of the source.)
\* This for a dst that is not, and is not inside, a directory that the source
\* reaches.
C16_Recoverable ==
    (pc = "merge" /\ mst # "none" /\ SourceDir(<<>>) /\ ~IsFile(start.fs, mdst)
       /\ ~Entangled) =>
        /\ mst = "ok"
        /\ \A rel \in Rels(MaxWalkDepth) :
              SourceFile(rel) =>
                  \/ LinkedSame(rel)
                  \/ (PreExisted(rel) /\ ~mforce)
                  \/ PreExistedDir(rel)
                  \/ Blocked(rel)

\* The conditions that hardlink(src, dst, force) rejects before it does
\* anything: no src, a directory onto a file, a file onto a directory.
TopLevelError ==
    \/ ~Exists(start.fs, msrc)
    \/ (IsDir(start.fs, msrc) /\ IsFile(start.fs, mdst))
    \/ (IsFile(start.fs, msrc) /\ IsDir(start.fs, mdst))

\* C19: when src does not exist, or src is a directory and dst a file, or src
\* is a file and dst a directory, hardlink(src, dst, force) exits with the
\* error and has created, linked and removed nothing.
C19_TopLevelErrors ==
    (pc = "merge" /\ mst # "none" /\ TopLevelError) =>
        (mst = "exit" /\ fs = start.fs)

\* hardlink of a source file onto a directory has exited.
C19_Witness ==
    /\ pc = "merge"
    /\ mst = "exit"
    /\ IsFile(start.fs, msrc)
    /\ IsDir(start.fs, mdst)
    /\ fs = start.fs

\* The regular files that were there before the call and are there no more.
MissingFiles == {q \in DOMAIN start.fs : start.fs[q].t = "file" /\ q \notin DOMAIN fs}

\* C20: with force true, link removes a regular file that is in the way and
\* tries the link once more. When the retry succeeds the destination is a link
\* to the source; when it fails the destination stays removed, the error is
\* raised and the merge stops there: a call that returns has lost no file, a
\* call that raises has lost at most the one whose retry failed, and the link
\* of a file onto a regular file either returns with the destination linked
\* and nothing else changed, or raises with the destination removed and nothing
\* else changed.
C20_ForcedRetry ==
    (pc = "merge" /\ mst # "none" /\ mforce) =>
        /\ mst = "ok" => MissingFiles = {}
        /\ Cardinality(MissingFiles) <= 1
        /\ MissingFiles # {} => mst = "raise"
        /\ (SourceFile(<<>>) /\ WasRegular(<<>>)) =>
              /\ Changed \subseteq {LPath(start.fs, mdst).p}
              /\ \/ mst = "ok" /\ LinkedSame(<<>>)
                 \/ mst = "raise" /\ MissingFiles = {LPath(start.fs, mdst).p}

\* A forced merge of a directory that holds several files has raised at the
\* first retry that failed: one file is lost and no other.
C20_Witness ==
    /\ pc = "merge"
    /\ mst = "raise"
    /\ mforce
    /\ SourceDir(<<>>)
    /\ Cardinality({rel \in Rels(MaxWalkDepth) : SourceFile(rel)}) >= 2
    /\ Cardinality(MissingFiles) = 1

CurItem == torrents[ti]
CurKey == Join(CurItem.downloadDir, CurItem.name)
CurLocal == get_local_path(CurKey, config.mapped)
CurRule == FirstRule(config.rules, CurLocal, 1)
ClassifyStep == pc = "classify" /\ ti <= Len(torrents) /\ ti' = ti + 1
MatchedStep == ClassifyStep /\ CurRule # 0

\* The ids of the items of a list.
Ids(items) == {items[i].id : i \in 1..Len(items)}

\* A Sweep step about the entry e of the download_dir of rule ri.
SweepStep(e) == pc = "sweep" /\ e \in entries /\ entries' = entries \ {e}
SweptLocal(e) == Join(config.rules[ri].download_dir, e)
Hidden(e) == e[1] = "."

\* p or an ancestor of p is in the set of the local paths matched to items.
InFoundSet(p, found) == p \in found \/ \E a \in found : IsAncestor(a, p)

\* This state is in a run that is not dry, with removal enabled, that follows a
\* completed run of the same kind with nothing changed from outside in between.
SecondRun ==
    /\ prev.end = "done"
    /\ ~prev.dry_run
    /\ prev.remove
    /\ ~ext
    /\ pc \in {"classify", "sweep", "prune", "done", "crashed", "error"}
    /\ ~dry_run
    /\ remove

\* C1 as stated: the second of two runs in succession, with no external change
\* in between, mutates neither the store nor the file system and removes
\* nothing from the remote client.
C1_IdempotentAsStated ==
    SecondRun => fs = start.fs /\ db = start.db /\ remote = start.remote

\* C1 amended: the second of two runs in succession (post-processing
\* directories outside the download directories) never sets a record. It
\* removes an item from the remote client only when the first run has set a
\* record (promotion and removal take two runs), and it merges or deletes an
\* entry of a download directory only when the first run has removed an item
\* (an entry the first run skipped for that item's sake). When the first run
\* has neither set a record nor removed an item, the second changes nothing.
C1_SecondRun ==
    SecondRun =>
        /\ "set" \notin ops
        /\ db \subseteq start.db
        /\ Ids(remote) \subseteq Ids(start.remote)
        /\ "rpc" \in ops => "set" \in prev.ops
        /\ Ids(remote) # Ids(start.remote) => "set" \in prev.ops
        /\ ops \cap {"link", "rm"} # {} => "rpc" \in prev.ops
        /\ prev.ops \cap {"set", "rpc"} = {} =>
               ops = {} /\ fs = start.fs /\ db = start.db /\ remote = start.remote

\* The second run has completed and has removed the item that the first run
\* had merged.
C1_Witness ==
    /\ SecondRun
    /\ pc = "done"
    /\ "set" \in prev.ops
    /\ "rpc" \in ops
    /\ remote # start.remote
    /\ db # start.db

\* seeding_required_more as the claim gives it, for the item t and the rule.
StatedSeeding(t, rule) ==
    \/ (rule.ratio.set /\ rule.ratio.v > t.uploadRatio)
    \/ (rule.seed_days.set /\ rule.seed_days.v * 86400 > t.secondsSeeding)

\* C2 as stated: for an item whose local path matches a rule, merge is chosen
\* iff completion is 1.0 and the store has no record of its remote path; remove
\* iff the store has a record, seeding_required_more is false and removal is
\* enabled; no-op otherwise.
C2_TruthTableAsStated ==
    [][MatchedStep =>
        /\ last'.kind \in {"merge", "remove", "keep", "active"}
        /\ last'.kind = "merge" <=> (CurItem.percentDone = 100 /\ CurKey \notin db)
        /\ last'.kind = "remove" <=>
               /\ CurKey \in db
               /\ ~StatedSeeding(CurItem, config.rules[CurRule])
               /\ remove]_vars

\* seeding_required_more as the code computes it: a threshold of 0 counts as
\* not set.
CodedSeeding(t, rule) ==
    \/ (rule.ratio.set /\ rule.ratio.v # 0 /\ rule.ratio.v > t.uploadRatio)
    \/ (rule.seed_days.set /\ rule.seed_days.v # 0
        /\ rule.seed_days.v * 86400 > t.secondsSeeding)

\* C2 amended: for an item whose local path matches a rule, merge is chosen iff
\* completion is 1.0 and the store has no record of its remote path; remove iff
\* completion is 1.0, the store has a record, no threshold that is set and not 0
\* is unmet, and removal is enabled; no-op otherwise, and a no-op changes
\* neither the store, nor the file system, nor the remote list.
C2_TruthTable ==
    [][MatchedStep =>
        /\ last'.kind \in {"merge", "remove", "keep", "active"}
        /\ last'.kind = "merge" <=> (CurItem.percentDone = 100 /\ CurKey \notin db)
        /\ last'.kind = "remove" <=>
               /\ CurItem.percentDone = 100
               /\ CurKey \in db
               /\ ~CodedSeeding(CurItem, config.rules[CurRule])
               /\ remove
        /\ last'.kind \in {"keep", "active"} =>
               fs' = fs /\ db' = db /\ remote' = remote]_vars

\* An item that is not complete, has a record and no unmet threshold has been
\* classified with removal enabled: it was left alone.
C2_Witness ==
    /\ pc = "classify"
    /\ ti > 1
    /\ last.phase = "classify"
    /\ last.kind = "active"
    /\ torrents[ti - 1].percentDone < 100
    /\ last.key \in db
    /\ remove
    /\ ~config.rules[1].ratio.set
    /\ ~config.rules[1].seed_days.set
    /\ StartsWith(last.path, config.rules[1].download_dir)

\* C4 as stated: the sweep skips a non-hidden entry iff its path or an ancestor
\* of its path is in FoundSet, and treats every other non-hidden entry as an
\* orphan.
C4_OrphanExclusive ==
    [][\A e \in entries :
        (SweepStep(e) /\ ~Hidden(e)) =>
            /\ last'.kind = "tracked" <=> InFoundSet(SweptLocal(e), found_torrents)
            /\ last'.kind \in {"orphan", "processed"}
                 <=> ~InFoundSet(SweptLocal(e), found_torrents)]_vars

\* The merge of the Classify step has returned and has left fs'.
MergedOk(r) == r.st = "ok" /\ fs' = r.fs
\* The record k is added by a merge that succeeded, in a run that is not dry.
AddedByMerge(k) ==
    /\ MatchedStep
    /\ ~dry_run
    /\ k = CurKey
    /\ MergedOk(Hardlink(fs, CurLocal,
                         Join(config.rules[CurRule].post_processing_dir,
                              Relpath(CurLocal, config.rules[CurRule].download_dir)),
                         TRUE))
\* The record k goes with its item, with the orphan it belongs to, or as stale.
RemovedWithItem(k) ==
    /\ ClassifyStep
    /\ k = CurKey
    /\ CurItem.id \in Ids(remote) \ Ids(remote')
RemovedWithOrphan(k) ==
    \E e \in entries :
        /\ SweepStep(e)
        /\ ~Hidden(e)
        /\ ~InFoundSet(SweptLocal(e), found_torrents)
        /\ k = get_remote_path(SweptLocal(e), config.mapped)
        /\ LExists(fs, SweptLocal(e))
        /\ ~LExists(fs', SweptLocal(e))
RemovedAsStale(k) ==
    /\ pc = "prune"
    /\ k \in keys
    /\ ~Exists(fs, get_local_path(k, config.mapped))

\* C5: a record is added to the store only by the step that has merged the
\* item's local path into the rule's post_processing_dir, the merge having
\* returned, in a run that is not dry (never by the sweep or the pruning); a
\* record is removed only with its item removed from the remote client, with
\* the orphan it belongs to deleted, or with its local path not existing when
\* the pruning comes to it.
C5_StoreDiscipline ==
    [][/\ \A k \in db' \ db : AddedByMerge(k)
       /\ \A k \in db \ db' :
             ~dry_run
             /\ (RemovedWithItem(k) \/ RemovedWithOrphan(k) \/ RemovedAsStale(k))]_vars

\* A run has completed in which a record was set after a merge and another
\* record was deleted.
C5_Witness ==
    /\ pc = "done"
    /\ {"link", "set", "del"} \subseteq ops
    /\ db \ start.db # {}
    /\ start.db \ db # {}

\* C6: an item leaves the remote client only in the step that classifies it,
\* with a record of its remote path in the store at that moment, a record that
\* was there when the run started (the merge was in an earlier run, never in
\* this one); after the removal the store has no record of that path and the
\* item's data is gone; and the record of an item that is classified is deleted
\* only when the removal call has returned.
C6_PromoteBeforeRemove ==
    [][/\ \A id \in Ids(remote) \ Ids(remote') :
             /\ ClassifyStep
             /\ id = CurItem.id
             /\ CurKey \in db
             /\ CurKey \in start.db
             /\ CurKey \notin db'
             /\ ~LExists(fs', CurLocal)
       /\ (ClassifyStep /\ CurKey \in db /\ CurKey \notin db') =>
             CurItem.id \in Ids(remote) \ Ids(remote')
       /\ (ClassifyStep /\ last'.kind = "merge") => remote' = remote]_vars

\* An item merged by one run has been removed by the next.
C6_Witness ==
    /\ pc = "classify"
    /\ last.kind = "remove"
    /\ last.st = "ok"
    /\ prev.end = "done"
    /\ "set" \in prev.ops
    /\ last.key \notin db
    /\ last.key \in start.db
    /\ Ids(remote) # Ids(start.remote)

\* The destination of the merge of an entry of the download_dir of rule ri.
SweptDestination(e) ==
    Join(config.rules[ri].post_processing_dir,
         Relpath(SweptLocal(e), config.rules[ri].download_dir))
\* The entry is deleted: the file system is left as rmtree, or else remove,
\* leaves it, and the entry is gone.
DeletedFrom(f, local) ==
    /\ fs' = RemoveOrphan(f, local).fs
    /\ ~LExists(fs', local)
\* The entry is merged, and deleted from what the merge has left.
MergedThenDeleted(r, local) ==
    /\ r.st = "ok"
    /\ DeletedFrom(r.fs, local)
\* What the sweep owes an orphaned entry.
Disposed(e) ==
    IF get_remote_path(SweptLocal(e), config.mapped) \in db
    THEN DeletedFrom(fs, SweptLocal(e))
    ELSE \/ MergedThenDeleted(Hardlink(fs, SweptLocal(e), SweptDestination(e), TRUE),
                              SweptLocal(e))
         \/ pc' = "crashed"
\* The rules whose sweep is complete.
SweptRules ==
    IF pc = "sweep" THEN 1..(IF entries = {} THEN ri ELSE ri - 1)
    ELSE IF pc \in {"prune", "done"} THEN 1..Len(config.rules)
    ELSE {}
\* The names that were in the download_dir of rule i when the run started and
\* were orphans: not hidden, and neither they nor an ancestor in FoundSet.
OrphansOf(i) ==
    {e \in ListDir(start.fs, config.rules[i].download_dir) :
        ~Hidden(e) /\ ~InFoundSet(Join(config.rules[i].download_dir, e), found_torrents)}

\* C7 as stated: in a sweep that is not dry every orphaned entry without a
\* record is merged into post_processing_dir and then deleted, every orphaned
\* entry with a record is deleted without a merge, and when the sweep of the
\* rule is complete no orphaned entry is left in download_dir and the store has
\* no record of its remote path.
C7_OrphanDisposal ==
    /\ [][\A e \in entries :
            (SweepStep(e) /\ ~dry_run /\ ~Hidden(e)
             /\ ~InFoundSet(SweptLocal(e), found_torrents)) => Disposed(e)]_vars
    /\ [](~dry_run =>
            \A i \in SweptRules : \A e \in OrphansOf(i) :
                /\ ~LExists(fs, Join(config.rules[i].download_dir, e))
                /\ get_remote_path(Join(config.rules[i].download_dir, e), config.mapped)
                     \notin db)

\* C8: a pruning step deletes the record it has come to exactly when the local
\* path of its key does not exist (a dry run deletes nothing, see C9), touches
\* no other record, changes nothing on the file system and removes nothing
\* from the remote client; and when a run that is not dry has completed, the
\* local path of every key of the store exists.
C8_StalePruning ==
    /\ [][\A k \in keys :
            (pc = "prune" /\ keys' = keys \ {k}) =>
                /\ fs' = fs
                /\ remote' = remote
                /\ db' \in {db, db \ {k}}
                /\ ~dry_run =>
                     (k \notin db' <=> ~Exists(fs, get_local_path(k, config.mapped)))
                /\ dry_run => db' = db]_vars
    /\ []((pc = "done" /\ ~dry_run) =>
            \A k \in db : Exists(fs, get_local_path(k, config.mapped)))

\* The pruning of a run that is not dry has deleted a stale record and has kept
\* a record whose local path exists.
C8_Witness ==
    /\ pc = "prune"
    /\ ~dry_run
    /\ last.phase = "prune"
    /\ start.db \ db # {}
    /\ "del" \in ops
    /\ \E k \in start.db \ db : ~Exists(fs, get_local_path(k, config.mapped))
    /\ \E k \in db \ keys : Exists(fs, get_local_path(k, config.mapped))

\* C9: a dry run leaves the store, the file system (download directories and
\* post-processing tree) and the remote client's list as they were when it
\* started, and a Classify step of a dry run takes the branch that the same
\* step of a real run takes.
C9_DryRun ==
    /\ []((dry_run /\ pc # "idle") =>
            fs = start.fs /\ db = start.db /\ remote = start.remote /\ ops = {})
    /\ [][(MatchedStep /\ dry_run) =>
            last'.kind = Decide(CurItem, config.rules[CurRule], db, CurKey, remove)]_vars

\* A dry run has completed: it has come to an item to merge, has left an orphan
\* in its download directory and a stale record in the store.
C9_Witness ==
    /\ dry_run
    /\ pc = "done"
    /\ LExists(fs, Child(dD, nO))
    /\ \E k \in db : ~Exists(fs, get_local_path(k, config.mapped))
    /\ \E i \in 1..Len(torrents) :
          /\ torrents[i].percentDone = 100
          /\ torrents[i].id = 1
          /\ Join(torrents[i].downloadDir, torrents[i].name) \notin db

\* A step that fails at start-up: the configuration, the database or the list
\* of the items cannot be had.
FailedStart == pc = "idle" /\ last'.phase = "start" /\ last'.kind # "ok"

\* C17: a run whose configuration or database cannot be loaded, or whose item
\* list cannot be fetched, ends in the error state before any item is
\* classified: it has changed neither the store, nor the file system, nor the
\* remote list, and nothing follows but the next run.
C17_FatalStartUp ==
    /\ [][FailedStart =>
            (pc' = "error" /\ torrents' = <<>> /\ fs' = fs /\ db' = db
               /\ remote' = remote)]_vars
    /\ [](pc = "error" =>
            (/\ last.phase = "start"
             /\ ti = 1
             /\ found_torrents = {}
             /\ ops = {}
             /\ fs = start.fs
             /\ db = start.db
             /\ remote = start.remote))
    /\ [][pc = "error" =>
            (pc' = "idle" /\ fs' = fs /\ db' = db /\ remote' = remote)]_vars

\* A run has failed to load its database, with records in the store, items to
\* classify and entries to sweep.
C17_Witness ==
    /\ pc = "error"
    /\ last.kind = "database"
    /\ db # {}
    /\ remote # <<>>
    /\ ~dry_run

\* The local paths of the items of the fetched list that match a rule.
FoundAll ==
    {get_local_path(Join(torrents[i].downloadDir, torrents[i].name), config.mapped) :
        i \in {i \in 1..Len(torrents) :
                 FirstRule(config.rules,
                           get_local_path(Join(torrents[i].downloadDir, torrents[i].name),
                                          config.mapped), 1) # 0}}

\* C18: in a run, no entry is swept before every item of the list has been
\* classified and the set of the found local paths is complete (the sweep does
\* not change it); the rules are swept one after the other in the order of the
\* configuration, each one to its end; no record is pruned before the last
\* rule has been swept to its end.
C18_PhaseOrder ==
    /\ [](pc = "sweep" =>
            (/\ ti = Len(torrents) + 1
             /\ found_torrents = FoundAll
             /\ ri \in 1..Len(config.rules)))
    /\ [](pc = "prune" =>
            (/\ ti = Len(torrents) + 1
             /\ ri = Len(config.rules) + 1
             /\ entries = {}))
    /\ [][(last'.phase = "sweep" /\ last'.kind # "list") =>
            (pc = "sweep" /\ found_torrents' = found_torrents /\ ri' = ri)]_vars
    /\ [][(pc = "classify" /\ pc' # "classify" /\ last'.phase = "sweep") => ri' = 1]_vars
    /\ [][(pc = "sweep" /\ ri' # ri) => (entries = {} /\ ri' = ri + 1)]_vars
    /\ [][last'.phase = "prune" => (pc \in {"sweep", "prune"} /\ fs' = fs)]_vars
    /\ [][(last'.phase = "prune" /\ last'.kind # "list") => pc = "prune"]_vars

\* A run that is not dry has merged and deleted an orphan of the first rule,
\* has swept the second rule and has come to the pruning with records to look
\* at.
C18_Witness ==
    /\ pc = "prune"
    /\ ~dry_run
    /\ Len(config.rules) = 2
    /\ keys # {}
    /\ fs # start.fs
    /\ torrents # <<>>

\* The hidden entries directly under the download_dir of the rule i.
HiddenEntries(i) ==
    {q \in DOMAIN fs : Dirname(q) = config.rules[i].download_dir /\ Hidden(Basename(q))}

\* C21: the sweep leaves alone an entry of a download_dir whose name begins
\* with '.': the step that comes to it changes neither the file system nor the
\* store, and no step of the sweep of that download_dir merges it, deletes it
\* or removes its record, whatever found_torrents and the store hold.
C21_HiddenSkipped ==
    /\ [][\A e \in entries :
            (SweepStep(e) /\ Hidden(e)) =>
                (/\ last'.kind = "hidden"
                 /\ last'.did = {}
                 /\ fs' = fs
                 /\ db' = db
                 /\ ops' = ops
                 /\ pc' = pc)]_vars
    /\ [][pc = "sweep" =>
            \A q \in HiddenEntries(ri) :
                /\ q \in DOMAIN fs'
                /\ fs'[q] = fs[q]
                /\ (get_remote_path(q, config.mapped) \in db
                      => get_remote_path(q, config.mapped) \in db')
                /\ \A p \in DOMAIN fs' \ DOMAIN fs :
                      Basename(p) # Basename(q)]_vars

\* The sweep of a run that is not dry has come to a hidden entry that has a
\* record and is no found torrent's, and has gone past it.
C21_Witness ==
    /\ pc = "sweep"
    /\ ~dry_run
    /\ last.phase = "sweep"
    /\ last.kind = "hidden"
    /\ get_remote_path(last.path, config.mapped) \in db
    /\ ~FoundMatch(last.path, found_torrents)
    /\ Exists(fs, last.path)

\* The local paths of the items of the fetched list that matched a rule and
\* that are the entry p or are inside it.
TrackedIn(p) == {t \in FoundAll : t = p \/ IsAncestor(p, t)}

\* C22 as stated: the sweep never deletes an entry of a download_dir that is,
\* or that holds, the local path of an item of this run that matched a rule,
\* whatever the item was classified as and however deep below download_dir it
\* downloads.
C22_TrackedKept ==
    [][\A e \in entries :
        (SweepStep(e) /\ TrackedIn(SweptLocal(e)) # {} /\ LExists(fs, SweptLocal(e))) =>
            (LExists(fs', SweptLocal(e))
               /\ \A t \in TrackedIn(SweptLocal(e)) : LExists(fs, t) => LExists(fs', t))]_vars

(***************************************************************************)
(* Properties of runs in succession, checked under SpecRuns.               *)
(***************************************************************************)
\* The store holds a record whose local path is p or is inside p.
Promoted(p) ==
    \E k \in db :
        \/ get_local_path(k, config.mapped) = p
        \/ IsAncestor(p, get_local_path(k, config.mapped))

\* C23 as stated: over any sequence of runs, no step merges a local path into
\* post_processing_dir while the store holds the record of the item it was
\* promoted as; an item promoted while tracked and then forgotten by the remote
\* client is deleted by the sweep and not merged again.
C23_AtMostOnce ==
    [][(last'.phase \in {"classify", "sweep"} /\ "link" \in last'.did) =>
          ~Promoted(last'.path)]_vars

\* The regular files of the entry p: p itself or what is below it.
FilesOf(p) == {q \in DOMAIN fs : fs[q].t = "file" /\ (q = p \/ IsAncestor(p, q))}

\* After the step a regular file under the post_processing_dir of the rule i
\* is the inode ino.
KeptUnder(i, ino) ==
    \E q \in DOMAIN fs' :
        /\ IsAncestor(config.rules[i].post_processing_dir, q)
        /\ fs'[q].t = "file"
        /\ fs'[q].ino = ino

\* C24 as stated: when the sweep of a run that is not dry deletes an orphan
\* that has no record, every regular file that was in it is, after the
\* deletion, a file under post_processing_dir too.
C24_OrphanKept ==
    [][\A e \in entries :
        (SweepStep(e) /\ ~dry_run /\ last'.kind = "orphan"
           /\ LExists(fs, SweptLocal(e)) /\ ~LExists(fs', SweptLocal(e))) =>
            \A q \in FilesOf(SweptLocal(e)) : KeptUnder(ri, fs[q].ino)]_vars

====
